---- MODULE Spec2Model ----
(***************************************************************************)
(* Model of youtube_chapters_demo.py: the chapter extractor                *)
(* (process_youtube_description), the timestamp normalizer                 *)
(* (convert_time_stamp_to_seconds), the marker builder (create_markers)    *)
(* and the timeline assembler (create_timeline).                           *)
(*                                                                         *)
(* A Python str is a sequence of one-character strings.  A Python int is   *)
(* unbounded, so the result of int() is kept as its sequence of decimal    *)
(* digits; datetime.timedelta is bounded (|days| <= 999999999) and is kept *)
(* as the pair days/seconds it normalises to.                              *)
(***************************************************************************)
EXTENDS Integers, Sequences, FiniteSets, TLC

VARIABLES
    dictMeta,      \* create_timeline's dictMeta: "duration" and "fps"
    lines,         \* f.readlines() of the description file
    pc,            \* position of the run
    timeline,      \* <<>> before otio.schema.Timeline() is built, then <<the timeline>>
    chapters,      \* list of (timestamp, title) tuples
    markers,       \* create_markers' local list
    seconds,       \* create_markers' local: result of the last conversion
    idx,           \* position of the running for loop in its list
    entry,         \* the function the run called
    written,       \* the timelines handed to otio.adapters.write_to_file, in order
    printed,       \* the marker counts printed by the "SAVED" line, in order
    error          \* the exception that ended the run, "none" while there is none

vars == <<dictMeta, lines, pc, timeline, chapters, markers, seconds, idx, entry, written,
          printed, error>>

----------------------------------------------------------------------------
(* Bounds of the inputs. *)

\* Greatest number of lines of a description file (specification Spec).
MaxLines == 2

\* Greatest number of colon-separated groups of a timestamp handed to
\* create_markers (specification SpecMarkers).
MaxGroups == 4

\* Greatest number of tokens of the single line of a description file
\* (specification SpecExtract).
MaxTokens == 5

----------------------------------------------------------------------------
(* Characters and strings. *)

Digits == {"0", "1", "2", "3", "4", "5", "6", "7", "8", "9"}

\* \d of the pattern, and the characters int() accepts, on the model's alphabet
IsDigit(c) == c \in Digits

\* \s of the pattern; "\n" ends every line readlines() returns but possibly the last
IsSpace(c) == c \in {" ", "\t", "\n"}

\* the character class [\),\]] of the pattern: ")", "," and "]"
IsCloser(c) == c \in {")", ",", "]"}

\* . of the pattern: any character but a newline
IsDot(c) == c # "\n"

DigitVal(c) ==
    CASE c = "0" -> 0 [] c = "1" -> 1 [] c = "2" -> 2 [] c = "3" -> 3 [] c = "4" -> 4
      [] c = "5" -> 5 [] c = "6" -> 6 [] c = "7" -> 7 [] c = "8" -> 8 [] c = "9" -> 9

RECURSIVE Concat(_)
\* "".join(parts)
Concat(parts) ==
    IF parts = <<>> THEN <<>> ELSE Head(parts) \o Concat(Tail(parts))

----------------------------------------------------------------------------
(* The pattern  ((?:\d+:)+\d{2})[\),\]]*\s(.+)  and pattern.findall(line). *)

NoMatch == [found |-> FALSE, ts |-> <<>>, title |-> <<>>, end |-> 0]

RECURSIVE RunEnd(_, _, _)
\* first position >= i of line whose character does not satisfy the class
\* (Len(line)+1 when there is none): where a greedy  x*  started at i stops
RunEnd(line, i, digit) ==
    IF i > Len(line) THEN i
    ELSE IF (digit /\ IsDigit(line[i])) \/ (~digit /\ IsCloser(line[i]))
         THEN RunEnd(line, i + 1, digit)
         ELSE i

RECURSIVE DotEnd(_, _)
\* where the greedy .+ started at i stops
DotEnd(line, i) ==
    IF i > Len(line) THEN i
    ELSE IF IsDot(line[i]) THEN DotEnd(line, i + 1) ELSE i

\* \d+: at position i: the position after the colon, 0 when it does not match
\* (a shorter \d+ is followed by a digit, never by the colon)
Group(line, i) ==
    LET e == RunEnd(line, i, TRUE)
    IN IF e > i /\ e <= Len(line) /\ line[e] = ":" THEN e + 1 ELSE 0

\* (a title group that may be empty: (.*) )
TitleMayBeEmpty(k, e) == e >= k + 1

\* (.+) after the \s at position k, having stopped at e: at least one character
TitleMatches(k, e) == e > k + 1

\* \d{2})[\),\]]*\s(.+) at position p, the timestamp having started at i
\* (fewer closers than the greedy run leave a closer where \s is needed)
MatchTail(line, i, p) ==
    IF p + 1 <= Len(line) /\ IsDigit(line[p]) /\ IsDigit(line[p + 1])
    THEN LET k == RunEnd(line, p + 2, FALSE)
             e == DotEnd(line, k + 1)
         IN IF k <= Len(line) /\ IsSpace(line[k]) /\ TitleMatches(k, e)
            THEN [found |-> TRUE, ts |-> SubSeq(line, i, p + 1),
                  title |-> SubSeq(line, k + 1, e - 1), end |-> e]
            ELSE NoMatch
    ELSE NoMatch

RECURSIVE Rep(_, _, _)
\* the rest of (?:\d+:)+ after one group, greedy: one more group is tried
\* first, and the two digits only when that fails
Rep(line, i, p) ==
    LET q == Group(line, p)
        more == IF q = 0 THEN NoMatch ELSE Rep(line, i, q)
    IN IF more.found THEN more ELSE MatchTail(line, i, p)

\* the pattern anchored at position i
MatchAt(line, i) ==
    LET p == Group(line, i)
    IN IF p = 0 THEN NoMatch ELSE Rep(line, i, p)

\* (a scan that keeps the last position at which the pattern matches)
RightmostStart(starts) == CHOOSE i \in starts : \A k \in starts : i >= k

\* the scan tries the positions from left to right and keeps the first at
\* which the pattern matches
LeftmostStart(starts) == CHOOSE i \in starts : \A k \in starts : i <= k

\* the first match at or after position from
Search(line, from) ==
    LET starts == {i \in from..Len(line) : MatchAt(line, i).found}
    IN IF starts = {} THEN NoMatch ELSE MatchAt(line, LeftmostStart(starts))

RECURSIVE FindAllFrom(_, _)
FindAllFrom(line, from) ==
    LET m == Search(line, from)
    IN IF m.found THEN <<(<<m.ts, m.title>>)>> \o FindAllFrom(line, m.end)
       ELSE <<>>

\* pattern.findall(line): the non-overlapping matches from left to right, each
\* the tuple of the two groups
findall(line) == FindAllFrom(line, 1)

----------------------------------------------------------------------------
(* convert_time_stamp_to_seconds. *)

\* the greatest number of days a datetime.timedelta holds
TimedeltaMaxDays == 999999999

SecondsPerDay == 86400

RECURSIVE split(_)
\* time_stamp.split(":"): the pieces between the colons, empty pieces kept
split(s) ==
    IF \E k \in 1..Len(s) : s[k] = ":"
    THEN LET k == CHOOSE k \in 1..Len(s) : s[k] = ":" /\ \A n \in 1..(k - 1) : s[n] # ":"
         IN <<SubSeq(s, 1, k - 1)>> \o split(SubSeq(s, k + 1, Len(s)))
    ELSE <<s>>

\* time_split.reverse()
reverse(l) == [k \in 1..Len(l) |-> l[Len(l) + 1 - k]]

\* int(s) of a str over digits, letters and punctuation (no sign, blank or
\* underscore): the digits of the number, or ValueError
int(s) ==
    IF s # <<>> /\ \A k \in 1..Len(s) : IsDigit(s[k])
    THEN [err |-> "none", digits |-> [k \in 1..Len(s) |-> DigitVal(s[k])]]
    ELSE [err |-> "ValueError", digits |-> <<>>]

\* the int 0 that hours, minutes and seconds start as; int(0) is 0
Zero == <<"0">>

Min(a, b) == IF a <= b THEN a ELSE b

RECURSIVE DivMod(_, _)
\* divmod(n, m) of the number with decimal digits ds, by long division; a
\* quotient above TimedeltaMaxDays is kept as TimedeltaMaxDays + 1
DivMod(ds, m) ==
    IF ds = <<>> THEN [q |-> 0, r |-> 0]
    ELSE LET prev == DivMod(SubSeq(ds, 1, Len(ds) - 1), m)
             cur == prev.r * 10 + ds[Len(ds)]
         IN [q |-> IF prev.q > TimedeltaMaxDays \div 10 THEN TimedeltaMaxDays + 1
                   ELSE Min(prev.q * 10 + cur \div m, TimedeltaMaxDays + 1),
             r |-> cur % m]

\* datetime.timedelta(hours=, minutes=, seconds=) of three ints given by
\* their digits: normalised to days and seconds, OverflowError beyond
\* TimedeltaMaxDays days
timedelta(hours, minutes, secs) ==
    LET h == DivMod(hours, 24)
        m == DivMod(minutes, 24 * 60)
        s == DivMod(secs, SecondsPerDay)
        rest == h.r * 3600 + m.r * 60 + s.r
        days == Min(Min(Min(h.q + m.q, TimedeltaMaxDays + 1) + s.q, TimedeltaMaxDays + 1)
                    + rest \div SecondsPerDay, TimedeltaMaxDays + 1)
    IN IF days > TimedeltaMaxDays
       THEN [err |-> "OverflowError", days |-> 0, seconds |-> 0]
       ELSE [err |-> "none", days |-> days, seconds |-> rest % SecondsPerDay]

\* timeDelta.total_seconds(): a float, exact for every timedelta (< 2^53)
total_seconds(td) == td.days * SecondsPerDay + td.seconds

\* the seconds a timestamp stands for, or the exception raised
convert_time_stamp_to_seconds(time_stamp) ==
    LET time_split == reverse(split(time_stamp))
        secs == int(IF Len(time_split) > 0 THEN time_split[1] ELSE Zero)
        minutes == int(IF Len(time_split) > 1 THEN time_split[2] ELSE Zero)
        hours == int(IF Len(time_split) > 2 THEN time_split[3] ELSE Zero)
        timeDelta == timedelta(hours.digits, minutes.digits, secs.digits)
    IN IF hours.err # "none" \/ minutes.err # "none" \/ secs.err # "none"
       THEN [err |-> "ValueError", val |-> 0]
       ELSE IF timeDelta.err # "none" THEN [err |-> timeDelta.err, val |-> 0]
       ELSE [err |-> "none", val |-> total_seconds(timeDelta)]

----------------------------------------------------------------------------
(* opentime values as create_markers and create_timeline build them.  A    *)
(* rate is the rational n/d (d > 0); a RationalTime's value is kept as the *)
(* rational n/d over the rate's denominator.                               *)

\* otio.opentime.from_seconds(s, rate): RationalTime(s, 1).rescaled_to(rate),
\* whose value is s * rate, not rounded
from_seconds(s, rate) ==
    [value |-> [n |-> s * rate.n, d |-> rate.d], rate |-> rate]

\* otio.opentime.TimeRange(start_time, duration)
TimeRange(start_time, duration) ==
    [start_time |-> start_time, duration |-> duration]

----------------------------------------------------------------------------
(* Inputs. *)

\* sequences over S of length lo..hi
SeqsOf(S, lo, hi) == UNION {[1..n -> S] : n \in lo..hi}

\* lines of a description file: plain, wrapped, without a timestamp, with two
\* timestamps, with no title, beyond timedelta's range, with four groups
SampleLines ==
    {<<"0", ":", "0", "5", " ", "a", "\n">>,
     <<"1", ":", "3", "0", " ", "b", "\n">>,
     <<"(", "0", ":", "0", "5", ")", " ", "a", "\n">>,
     <<"s", "e", "e", " ", "a", "\n">>,
     <<"0", ":", "0", "5", " ", "1", ":", "3", "0", " ", "c", "\n">>,
     <<"1", ":", "3", "0", " ", "\n">>,
     <<"9", "0", "0", "0", "0", "0", "0", "0", "0", "0", "0", "0", "0", "0", ":", "0", "0", " ", "e", "\n">>,
     <<"1", ":", "0", "2", ":", "0", "3", ":", "0", "4", " ", "d", "\n">>}

\* the description files of a run of create_timeline
Descriptions == SeqsOf(SampleLines, 0, MaxLines)

\* dictMeta["duration"] in seconds
Durations == {-1, 0, 60}

\* dictMeta["fps"]: 24, 29.97, 0 and -24
Rates == {[n |-> 24, d |-> 1], [n |-> 2997, d |-> 100], [n |-> 0, d |-> 1],
          [n |-> -24, d |-> 1]}

\* the pieces of the timestamps handed to create_markers directly
GroupSamples ==
    {<<"0">>,
     <<"0", "5">>,
     <<"3">>,
     <<"1", "2">>,
     <<"5", "9">>,
     <<"a">>,
     <<>>,
     <<"9", "0", "0", "0", "0", "0", "0", "0", "0", "0", "0", "0", "0", "0">>}

RECURSIVE JoinColon(_)
\* ":".join(groups)
JoinColon(groups) ==
    IF Len(groups) = 1 THEN groups[1]
    ELSE groups[1] \o <<":">> \o JoinColon(Tail(groups))

Timestamps == {JoinColon(g) : g \in SeqsOf(GroupSamples, 1, MaxGroups)}

\* the pieces of the line handed to process_youtube_description directly
Tokens ==
    {<<"1", ":">>,
     <<"0", "5">>,
     <<"3">>,
     <<" ">>,
     <<")">>,
     <<"a">>}

TokenLines == {Concat(l) \o <<"\n">> : l \in SeqsOf(Tokens, 0, MaxTokens)}

----------------------------------------------------------------------------
(* The run. *)

\* the state before the first statement of the function called
Start(fn, meta, file, chaps, at) ==
    /\ entry = fn
    /\ dictMeta = meta
    /\ lines = file
    /\ chapters = chaps
    /\ pc = at
    /\ idx = 1
    /\ timeline = <<>>
    /\ markers = <<>>
    /\ seconds = 0
    /\ written = <<>>
    /\ printed = <<>>
    /\ error = "none"

\* create_timeline(dictMeta, video_file, description_file, otio_file)
Init ==
    \E meta \in [duration : Durations, fps : Rates], file \in Descriptions :
        Start("create_timeline", meta, file, <<>>, "start")

\* process_youtube_description(description_file) on a file of one line
InitExtract ==
    \E line \in TokenLines :
        Start("process_youtube_description",
              [duration |-> 0, fps |-> [n |-> 24, d |-> 1]], <<line>>, <<>>, "process")

\* create_markers(chapters, fps) on one chapter
InitMarkers ==
    \E ts \in Timestamps, fps \in {r \in Rates : r.n > 0} :
        Start("create_markers", [duration |-> 0, fps |-> fps], <<>>,
              <<(<<ts, <<"a">> >>)>>, "markers")

\* the clip of the timeline (its only track's only child)
TheClip == timeline[1].tracks[1].children[1]

\* steps 1 to 6 of create_timeline: the timeline, its track, the media
\* reference with its available range, and the clip appended to the track
CreateTimeline ==
    /\ pc = "start"
    /\ LET available_range ==
               TimeRange(from_seconds(0, dictMeta.fps),
                         from_seconds(dictMeta.duration, dictMeta.fps))
           clip == [media_reference |-> [available_range |-> available_range],
                    markers |-> <<>>]
           track == [name |-> "Videos", children |-> <<clip>>]
       IN timeline' = <<[name |-> "Youtube Demo", tracks |-> <<track>>]>>
    /\ pc' = "process"
    /\ idx' = 1
    /\ UNCHANGED <<dictMeta, lines, chapters, markers, seconds, entry, written, printed, error>>

\* list.append(item)
append(list, item) == list \o <<item>>

\* (an extend that loses the last item)
extend_but_last(list, items) == list \o SubSeq(items, 1, Len(items) - 1)

\* list.extend(items)
extend(list, items) == list \o items

\* one iteration of  for line in lines  of process_youtube_description
ProcessLine ==
    /\ pc = "process"
    /\ idx <= Len(lines)
    /\ LET matches == findall(lines[idx])
       IN chapters' = IF matches # <<>> THEN append(chapters, matches[1]) ELSE chapters
    /\ idx' = idx + 1
    /\ UNCHANGED <<dictMeta, lines, pc, timeline, markers, seconds, entry, written, printed, error>>

\* return chapters
ProcessReturn ==
    /\ pc = "process"
    /\ idx > Len(lines)
    /\ pc' = IF entry = "create_timeline" THEN "markers" ELSE "returned"
    /\ idx' = 1
    /\ UNCHANGED <<dictMeta, lines, timeline, chapters, markers, seconds, entry, written, printed, error>>

\* (a marker named by the chapter's timestamp)
MarkerNamedByTimestamp(chapter, s, fps) ==
    [name |-> chapter[1],
     color |-> "RED",
     marked_range |-> TimeRange(from_seconds(s, fps), from_seconds(0, fps))]

\* the marker of a chapter at seconds s
Marker(chapter, s, fps) ==
    [name |-> chapter[2],
     color |-> "RED",
     marked_range |-> TimeRange(from_seconds(s, fps), from_seconds(0, fps))]

\* (a loop that skips the chapter whose conversion fails)
CreateMarkerSkipping ==
    /\ pc = "markers"
    /\ idx <= Len(chapters)
    /\ LET r == convert_time_stamp_to_seconds(chapters[idx][1])
       IN IF r.err # "none"
          THEN UNCHANGED <<markers, seconds>>
          ELSE /\ seconds' = r.val
               /\ markers' = append(markers, Marker(chapters[idx], r.val, dictMeta.fps))
    /\ idx' = idx + 1
    /\ UNCHANGED <<dictMeta, lines, pc, timeline, chapters, entry, written, printed, error>>

\* one iteration of  for chapter in chapters  of create_markers; an exception
\* of the conversion ends the run, the frames staying as they were
CreateMarker ==
    /\ pc = "markers"
    /\ idx <= Len(chapters)
    /\ LET r == convert_time_stamp_to_seconds(chapters[idx][1])
       IN IF r.err # "none"
          THEN /\ error' = r.err
               /\ pc' = "raised"
               /\ UNCHANGED <<markers, seconds, idx>>
          ELSE /\ seconds' = r.val
               /\ markers' = append(markers, Marker(chapters[idx], r.val, dictMeta.fps))
               /\ idx' = idx + 1
               /\ UNCHANGED <<pc, error>>
    /\ UNCHANGED <<dictMeta, lines, timeline, chapters, entry, written, printed>>

\* return markers
CreateMarkersReturn ==
    /\ pc = "markers"
    /\ idx > Len(chapters)
    /\ pc' = IF entry = "create_timeline" THEN "extend" ELSE "returned"
    /\ UNCHANGED <<dictMeta, lines, timeline, chapters, markers, seconds, idx, entry, written,
                   printed, error>>

\* clip.markers.extend(markers)
ExtendMarkers ==
    /\ pc = "extend"
    /\ timeline' = [timeline EXCEPT ![1].tracks[1].children[1].markers = extend(@, markers)]
    /\ pc' = "write"
    /\ UNCHANGED <<dictMeta, lines, chapters, markers, seconds, idx, entry, written, printed, error>>

\* otio.adapters.write_to_file(timeline, otio_file)
WriteToFile ==
    /\ pc = "write"
    /\ written' = Append(written, timeline[1])
    /\ pc' = "print"
    /\ UNCHANGED <<dictMeta, lines, timeline, chapters, markers, seconds, idx, entry, printed, error>>

\* print("SAVED: {0} with {1} markers.".format(otio_file, len(markers)))
PrintSaved ==
    /\ pc = "print"
    /\ printed' = Append(printed, Len(markers))
    /\ pc' = "done"
    /\ UNCHANGED <<dictMeta, lines, timeline, chapters, markers, seconds, idx, entry, written, error>>

Next ==
    \/ CreateTimeline
    \/ ProcessLine
    \/ ProcessReturn
    \/ CreateMarker
    \/ CreateMarkersReturn
    \/ ExtendMarkers
    \/ WriteToFile
    \/ PrintSaved

\* a run of create_timeline
Spec == Init /\ [][Next]_vars

NextExtract == ProcessLine \/ ProcessReturn

\* a call of process_youtube_description
SpecExtract == InitExtract /\ [][NextExtract]_vars

NextMarkers == CreateMarker \/ CreateMarkersReturn

\* a call of create_markers
SpecMarkers == InitMarkers /\ [][NextMarkers]_vars

----------------------------------------------------------------------------
(* What the claims speak of, stated without the operators of the model     *)
(* where the claim is about them.                                          *)

\* the timestamp of the only chapter of a call of create_markers
TheTimestamp == chapters[1][1]

\* create_markers has converted its first chapter, or failed to
Converted == pc = "raised" \/ (pc \in {"markers", "returned"} /\ idx > 1)

\* one or more colon-separated groups, each of one or more digits
AllDigitGroups(ts) ==
    /\ ts # <<>>
    /\ \A k \in 1..Len(ts) : ts[k] \in Digits \cup {":"}
    /\ ts[1] # ":" /\ ts[Len(ts)] # ":"
    /\ \A k \in 1..(Len(ts) - 1) : ~(ts[k] = ":" /\ ts[k + 1] = ":")

\* the form (\d+:)+\d{2}
TimestampForm(ts) ==
    /\ AllDigitGroups(ts)
    /\ Len(ts) >= 4
    /\ ts[Len(ts) - 2] = ":" /\ ts[Len(ts) - 1] # ":" /\ ts[Len(ts)] # ":"

\* position of the last colon of ts, 0 when it has none
LastColon(ts) ==
    IF \E k \in 1..Len(ts) : ts[k] = ":"
    THEN CHOOSE k \in 1..Len(ts) : ts[k] = ":" /\ \A n \in (k + 1)..Len(ts) : ts[n] # ":"
    ELSE 0

RECURSIVE GroupFromRight(_, _)
\* the n-th group of ts from the right, "0" when ts has fewer groups
GroupFromRight(ts, n) ==
    IF n = 1 THEN SubSeq(ts, LastColon(ts) + 1, Len(ts))
    ELSE IF LastColon(ts) = 0 THEN <<"0">>
    ELSE GroupFromRight(SubSeq(ts, 1, LastColon(ts) - 1), n - 1)

RECURSIVE Value(_)
\* the number a string of digits writes
Value(ds) ==
    IF ds = <<>> THEN 0 ELSE 10 * Value(SubSeq(ds, 1, Len(ds) - 1)) + DigitVal(ds[Len(ds)])

\* hours*3600 + minutes*60 + seconds of the three rightmost groups
SecondsOf(ts) ==
    Value(GroupFromRight(ts, 3)) * 3600 + Value(GroupFromRight(ts, 2)) * 60
        + Value(GroupFromRight(ts, 1))

\* the pattern matches somewhere in the line
HasMatch(line) == \E p \in 1..Len(line) : MatchAt(line, p).found

\* the entry of the leftmost match of a line that has one
FirstEntry(line) ==
    LET p == CHOOSE p \in 1..Len(line) :
                 MatchAt(line, p).found /\ \A q \in 1..(p - 1) : ~MatchAt(line, q).found
    IN <<MatchAt(line, p).ts, MatchAt(line, p).title>>

\* the number of lines the loop of process_youtube_description has been through
Processed ==
    IF pc = "start" THEN 0 ELSE IF pc = "process" THEN idx - 1 ELSE Len(lines)

\* the lines gone through that have a match
MatchingLines == {k \in 1..Processed : HasMatch(lines[k])}

\* the run is past create_markers' return
Built == pc \in {"extend", "write", "print", "done"}

\* the run is past clip.markers.extend
Attached == pc \in {"write", "print", "done"}

----------------------------------------------------------------------------
(* The claims. *)

\* C1: for every timestamp of one or more colon-separated all-digit groups,
\* convert_time_stamp_to_seconds returns hours*3600 + minutes*60 + seconds of
\* the three rightmost groups, a missing group counting as 0 and the groups
\* left of the hours being ignored.  (The claim as stated, for every such
\* timestamp.)
C1_ExactSeconds ==
    (entry = "create_markers" /\ Converted /\ AllDigitGroups(TheTimestamp))
        => (error = "none" /\ seconds = SecondsOf(TheTimestamp))

\* C2: convert_time_stamp_to_seconds fails, and returns no duration, for
\* every string that is not made of all-digit colon-separated groups or whose
\* trailing group is not exactly two digits.
C2_RejectsMalformed ==
    (/\ entry = "create_markers"
     /\ Converted
     /\ \/ ~AllDigitGroups(TheTimestamp)
        \/ Len(GroupFromRight(TheTimestamp, 1)) # 2)
        => (pc = "raised" /\ error # "none")

\* C3: the lines gone through that have a match contribute one entry each,
\* the entry of their leftmost match, in the order of the lines; the other
\* lines contribute nothing.
C3_OneEntryPerMatchingLine ==
    /\ Len(chapters) = Cardinality(MatchingLines)
    /\ \A k \in MatchingLines :
           chapters[Cardinality({m \in MatchingLines : m <= k})] = FirstEntry(lines[k])

\* (C3) of two lines the first has no match and the second has two
\* timestamps: one entry, of the leftmost timestamp
C3_Witness ==
    /\ entry = "create_timeline" /\ pc = "markers" /\ idx = 1
    /\ lines = <<<<"s", "e", "e", " ", "a", "\n">>,
                 <<"0", ":", "0", "5", " ", "1", ":", "3", "0", " ", "c", "\n">>>>
    /\ chapters = <<(<<<<"0", ":", "0", "5">>, <<"1", ":", "3", "0", " ", "c">>>>)>>

\* a line that ends with a timestamp, one whitespace character and the end of
\* the line, and has no colon before the timestamp
EndsWithBareTimestamp(line) ==
    /\ Len(line) >= 6
    /\ line[Len(line)] = "\n"
    /\ IsSpace(line[Len(line) - 1])
    /\ \E p \in 1..(Len(line) - 2) :
           /\ TimestampForm(SubSeq(line, p, Len(line) - 2))
           /\ \A k \in 1..(p - 1) : line[k] # ":"

C5_StartIsFloor ==
    \A k \in 1..Len(markers) :
        LET D == convert_time_stamp_to_seconds(chapters[k][1]).val
            F == dictMeta.fps
            start == markers[k].marked_range.start_time
            duration == markers[k].marked_range.duration
        IN F.n > 0 =>
               /\ start.rate = F
               /\ start.value.n = ((D * F.n) \div F.d) * start.value.d
               /\ duration.rate = F
               /\ duration.value.n = 0

\* C6: create_markers returns one marker per entry, the k-th named by the
\* k-th entry's title, coloured RED and placed at the k-th entry's time: in
\* the entries' order, whatever their times.
C6_MarkersMirrorEntries ==
    /\ pc = "markers" => Len(markers) = idx - 1
    /\ Built => Len(markers) = Len(chapters)
    /\ \A k \in 1..Len(markers) :
           /\ markers[k].name = chapters[k][2]
           /\ markers[k].color = "RED"
           /\ markers[k].marked_range.start_time.value.n
                  = SecondsOf(chapters[k][1]) * dictMeta.fps.n

\* (C6) two entries with decreasing times have given two markers in the
\* entries' order
C6_Witness ==
    /\ entry = "create_timeline" /\ pc = "extend"
    /\ Len(markers) = 2
    /\ markers[1].name = <<"b">> /\ markers[2].name = <<"a">>
    /\ SecondsOf(chapters[1][1]) > SecondsOf(chapters[2][1])

\* C7: the timeline of create_timeline has exactly one track and that track
\* exactly one clip, whatever the number of markers; once the markers are
\* attached the clip's marker list is the list create_markers built, and the
\* count printed is its length.
C7_OneTrackOneClip ==
    /\ timeline # <<>> =>
           /\ Len(timeline) = 1
           /\ Len(timeline[1].tracks) = 1
           /\ Len(timeline[1].tracks[1].children) = 1
    /\ Attached => TheClip.markers = markers
    /\ written # <<>> => written = <<timeline[1]>>
    /\ pc = "done" => printed = <<Len(TheClip.markers)>>

\* (C7) a run has ended with two markers on the clip
C7_Witness ==
    /\ pc = "done"
    /\ Len(TheClip.markers) = 2
    /\ printed = <<2>>

\* C8: with dictMeta["duration"] < 0 or dictMeta["fps"] <= 0, create_timeline
\* fails with InvalidVideoMetadata before it builds anything: no timeline is
\* made and write_to_file is never called.  (The claim as stated.)
C8_FailsFast ==
    (dictMeta.duration < 0 \/ dictMeta.fps.n <= 0)
        => /\ timeline = <<>>
           /\ written = <<>>
           /\ pc # "start" => error = "InvalidVideoMetadata"

\* every chapter converts
AllConvert == \A k \in 1..Len(chapters) : convert_time_stamp_to_seconds(chapters[k][1]).err = "none"

\* C9: write_to_file is called at most once, and only with every entry
\* converted and every marker on the clip; a conversion that fails ends the
\* run with no marker on the clip and write_to_file never called.
C9_NoPartialOutput ==
    /\ Len(written) <= 1
    /\ written # <<>> =>
           /\ error = "none"
           /\ Processed = Len(lines)
           /\ AllConvert
           /\ Len(written[1].tracks[1].children[1].markers) = Len(chapters)
    /\ (Built \/ pc = "raised") => (AllConvert <=> error = "none")
    /\ error # "none" =>
           /\ pc = "raised"
           /\ ~ENABLED Next
           /\ written = <<>> /\ printed = <<>>
           /\ TheClip.markers = <<>>

\* (C9) the second chapter's conversion has failed after the first had given
\* its marker
C9_Witness ==
    /\ entry = "create_timeline" /\ pc = "raised"
    /\ idx = 2 /\ Len(markers) = 1

\* C10: create_markers never fails on what process_youtube_description
\* returns, and gives one marker per matching line.  (The claim as stated.)
C10_TotalOnExtractorOutput ==
    (entry = "create_timeline" /\ dictMeta.duration >= 0 /\ dictMeta.fps.n > 0) =>
        /\ error = "none"
        /\ Built => Len(markers) = Cardinality(MatchingLines)

----------------------------------------------------------------------------
(* What the code does where it departs from a claim.                       *)

\* the digits of a group without its leading zeros
RECURSIVE Significant(_)
Significant(ds) ==
    IF ds # <<>> /\ ds[1] = "0" THEN Significant(Tail(ds)) ELSE ds

\* a group of at most six significant digits: below 10^6 hours, far inside
\* timedelta's range
Short(ds) == Len(Significant(ds)) <= 6

\* (C1, C10) an all-digit timestamp whose three rightmost groups are short
\* converts to hours*3600 + minutes*60 + seconds; one that fails fails with
\* OverflowError
ExactWithinRange ==
    (entry = "create_markers" /\ Converted /\ AllDigitGroups(TheTimestamp)) =>
        /\ error \in {"none", "OverflowError"}
        /\ (\A n \in 1..3 : Short(GroupFromRight(TheTimestamp, n))) => error = "none"
        /\ error = "none" => seconds = SecondsOf(TheTimestamp)

\* (C2) the conversion fails with ValueError exactly when one of the three
\* rightmost groups is not a string of one or more digits: neither the groups
\* further left nor the length of the trailing group are looked at
FailsOnItsThreeGroupsOnly ==
    (entry = "create_markers" /\ Converted) =>
        (error = "ValueError" <=>
            \E n \in 1..3 : ~AllDigitGroups(GroupFromRight(TheTimestamp, n)))

\* (C5) a marker starts at D * F frames, not rounded, and lasts 0 frames
StartIsProduct ==
    \A k \in 1..Len(markers) :
        LET D == SecondsOf(chapters[k][1])
            start == markers[k].marked_range.start_time
            duration == markers[k].marked_range.duration
        IN /\ start.rate = dictMeta.fps /\ duration.rate = dictMeta.fps
           /\ start.value = [n |-> D * dictMeta.fps.n, d |-> dictMeta.fps.d]
           /\ duration.value.n = 0

====
